---- MODULE Spec2Model ----
(***************************************************************************)
(* Analogy Assist (src/main.py): a Streamlit script that is re-executed    *)
(* from top to bottom after every widget interaction.                      *)
(*                                                                         *)
(* Text is modelled as a sequence of tokens.  A literal piece of a         *)
(* template is one token, the line break is the token "\n", and a value    *)
(* typed by the user is a sequence of tokens of a small alphabet.          *)
(* Concatenation of texts is concatenation of sequences, the empty Python  *)
(* string is << >>.                                                        *)
(*                                                                         *)
(* Framework behaviour the model relies on (streamlit):                    *)
(*  - a button returns True only in the run triggered by clicking it;      *)
(*  - only widgets drawn by the last completed run can be operated;        *)
(*  - the state of a widget that a run does not draw is dropped;           *)
(*  - a text_input without key is identified by its arguments, so a new    *)
(*    default value makes a new widget that starts at that default;        *)
(*  - st.session_state entries survive between runs;                       *)
(*  - st.set_page_config is accepted after other commands;                 *)
(*  - an interaction made while requests.post blocks starts its run only   *)
(*    after the call has returned, so interactions are taken between runs. *)
(***************************************************************************)
EXTENDS Integers, Sequences, FiniteSets, TLC

VARIABLES
    user_token,        \* value of the token text_input (line 8)
    conceptState,      \* user-entered state of the concept text_input
    context,           \* value of the context text_area (line 150)
    selected_mode,     \* value of the sidebar selectbox (line 113)
    difficulty_level,  \* value of the sidebar select_slider (line 119)
    session_state,     \* st.session_state: set of <<key, value>>
    default_concept,   \* local of lines 139-143
    concept,           \* local of line 144
    prompt,            \* local of line 179
    response,          \* local of line 180
    out,               \* messages emitted by the current run, in order
    pc,                \* position of the script
    clicked,           \* the button whose click triggered the current run
    rendered,          \* widgets drawn so far by the current run
    screen,            \* widgets drawn by the last completed run
    exception,         \* uncaught exception that ended the run, or "none"
    posts,             \* number of HTTP POSTs issued so far
    inflight,          \* number of POSTs issued and not yet completed
    runPosts,          \* number of POSTs issued by the current run
    qualClicks,        \* Generate clicks made with token and concept present
    stamp,             \* number of selected_concept values stored so far
    defaultStamps      \* stamps of the stored values used as default

vars == <<user_token, conceptState, context, selected_mode, difficulty_level,
          session_state, default_concept, concept, prompt, response, out, pc,
          clicked, rendered, screen, exception, posts, inflight, runPosts,
          qualClicks, stamp, defaultStamps>>

\* ------------------------------------------------------------------ bounds
MaxClicks == 2      \* Generate clicks per behaviour
MaxStores == 2      \* example-button clicks per behaviour
MaxTextLen == 3     \* length of a generated_text returned by the endpoint
MaxCtxLen == 2      \* length of a context given to create_analogy_prompt

\* ------------------------------------------------------------------- text
NL == "\n"

Whitespace == {" ", NL, "\t"}

RECURSIVE Texts(_, _)
Texts(alphabet, n) ==
    IF n = 0 THEN {<< >>}
    ELSE LET shorter == Texts(alphabet, n - 1)
         IN  shorter \cup {Append(t, a) : t \in shorter, a \in alphabet}

RECURSIVE lstrip_rest(_)
lstrip_rest(s) ==
    IF s = << >> THEN << >>
    ELSE IF Head(s) \in Whitespace THEN lstrip_rest(Tail(s)) ELSE s

RECURSIVE rstrip(_)
rstrip(s) ==
    IF s = << >> THEN << >>
    ELSE IF s[Len(s)] \in Whitespace THEN rstrip(SubSeq(s, 1, Len(s) - 1)) ELSE s

lstrip(s) == lstrip_rest(s)

\* str.strip() of line 184
strip(s) == rstrip(lstrip_rest(s))

\* the lines of a text: the pieces between line breaks
RECURSIVE Lines(_)
Lines(s) ==
    IF \A i \in 1..Len(s) : s[i] # NL THEN <<s>>
    ELSE LET k == CHOOSE i \in 1..Len(s) :
                      s[i] = NL /\ \A j \in 1..(i - 1) : s[j] # NL
         IN  <<SubSeq(s, 1, k - 1)>> \o Lines(SubSeq(s, k + 1, Len(s)))

\* ------------------------------------------------- create_analogy_prompt
learning_modes ==
    <<"Simple Analogy Explanation", "Multiple Analogies Comparison",
      "Interactive Analogy Building", "Problem-Solving with Analogies",
      "Story-Based Learning">>

difficulty_options == <<"Beginner", "Intermediate", "Advanced">>

example_concepts ==
    <<"Artificial Intelligence", "Blockchain Technology", "Climate Change",
      "Stock Market Volatility", "Neural Networks", "Photosynthesis",
      "Supply Chain Management", "Quantum Computing">>

Range(f) == {f[i] : i \in DOMAIN f}

base_context_always(ctx) == <<"Context: ">> \o ctx \o <<NL>>

\* line 49
base_context(ctx) ==
    IF ctx # << >> THEN <<"Context: ">> \o ctx \o <<NL>> ELSE << >>

\* lines 51-59
SimpleTemplate(c, d, bc) ==
    <<"Explain the concept of '">> \o c
      \o <<"' using a simple, relatable analogy. ", NL>>
      \o bc \o <<NL>>
      \o <<"Make it ">> \o d
      \o <<" level and easy to understand. Use everyday objects or situations that most people are familiar with.",
           NL, NL, "Format your response as:", NL, "**Concept:** ">> \o c
      \o <<NL, "**Analogy:** [Your analogy here]", NL,
           "**Explanation:** [How the analogy relates to the concept]", NL>>

\* lines 61-71
MultipleTemplate(c, d, bc) ==
    <<"Provide 3 different analogies to explain '">> \o c
      \o <<"' from different perspectives. ", NL>>
      \o bc \o <<NL>>
      \o <<"Make it ">> \o d
      \o <<" level. Show how each analogy highlights different aspects of the concept.",
           NL, NL, "Format your response as:", NL, "**Concept:** ">> \o c
      \o <<NL, "**Analogy 1:** [First analogy and explanation]", NL,
           "**Analogy 2:** [Second analogy and explanation]  ", NL,
           "**Analogy 3:** [Third analogy and explanation]", NL,
           "**Summary:** [How all analogies work together to explain the concept]",
           NL>>

\* lines 73-78
InteractiveTemplate(c, d, bc) ==
    <<"Help me build an analogy for '">> \o c \o <<"' step by step. ", NL>>
      \o bc \o <<NL>>
      \o <<"Make it ">> \o d
      \o <<" level. Start by asking what familiar thing or situation I'd like to compare it to, then guide me through building the analogy.",
           NL, NL, "Start with: \"Let's build an analogy for ">> \o c
      \o <<" together! What's something from your daily life that you're very familiar with that we could potentially compare to ">>
      \o c \o <<"?\"", NL>>

\* lines 80-89
ProblemTemplate(c, d, bc) ==
    <<"I need to solve a problem or understand a challenge related to '">>
      \o c \o <<"'. ", NL>>
      \o bc \o <<NL>>
      \o <<"Make it ">> \o d
      \o <<" level. Use analogies to help me understand the problem and potential solutions.",
           NL, NL, "Format your response as:", NL,
           "**Problem/Challenge:** [Identify the key challenge with ">> \o c
      \o <<"]", NL, "**Analogy:** [Use an analogy to explain the problem]", NL,
           "**Solution Approach:** [Use the same analogy to suggest solutions]",
           NL,
           "**Application:** [How to apply this understanding practically]",
           NL>>

\* lines 91-99
StoryTemplate(c, d, bc) ==
    <<"Create an engaging story that naturally incorporates and explains '">>
      \o c \o <<"' through analogies. ", NL>>
      \o bc \o <<NL>>
      \o <<"Make it ">> \o d
      \o <<" level. The story should make the concept memorable and easy to understand.",
           NL, NL, "Format your response as:", NL,
           "**Story Title:** [Creative title]", NL,
           "**Story:** [Your engaging story that explains ">> \o c
      \o <<"]", NL, "**Key Takeaways:** [Main points about ">> \o c
      \o <<" from the story]", NL>>

\* the last branch tests the mode name instead of being the else branch
create_analogy_prompt_elif(c, learning_mode, d, ctx) ==
    LET bc == base_context(ctx)
    IN  IF learning_mode = "Simple Analogy Explanation"
          THEN SimpleTemplate(c, d, bc)
        ELSE IF learning_mode = "Multiple Analogies Comparison"
          THEN MultipleTemplate(c, d, bc)
        ELSE IF learning_mode = "Interactive Analogy Building"
          THEN InteractiveTemplate(c, d, bc)
        ELSE IF learning_mode = "Problem-Solving with Analogies"
          THEN ProblemTemplate(c, d, bc)
        ELSE IF learning_mode = "Story-Based Learning"
          THEN StoryTemplate(c, d, bc)
        ELSE <<"UnboundLocalError">>

\* lines 48-100
create_analogy_prompt(c, learning_mode, d, ctx) ==
    LET bc == base_context(ctx)
    IN  IF learning_mode = "Simple Analogy Explanation"
          THEN SimpleTemplate(c, d, bc)
        ELSE IF learning_mode = "Multiple Analogies Comparison"
          THEN MultipleTemplate(c, d, bc)
        ELSE IF learning_mode = "Interactive Analogy Building"
          THEN InteractiveTemplate(c, d, bc)
        ELSE IF learning_mode = "Problem-Solving with Analogies"
          THEN ProblemTemplate(c, d, bc)
        ELSE StoryTemplate(c, d, bc)

\* --------------------------------------------------------- values in play
NoToken == << >>

Tokens == {NoToken, <<"hf_token">>}

TypedConcepts == {<< >>, <<"Machine Learning">>}

TypedContexts == {<< >>, <<"for a 10-year-old">>}

ExampleButtons == 1..4          \* example_concepts[:4], line 170

FeedbackButtons == {"Very Helpful", "Somewhat Helpful", "Not Helpful"}

NoButton == <<"none", "">>

NoState == [id |-> <<"-">>, val |-> <<"-">>]

Msg(fn, body) == [fn |-> fn, body |-> body]

TokenWarning ==
    Msg("warning", <<"Please enter your Hugging Face API token above to continue.">>)

ConceptWarning == Msg("warning", <<"Please enter a concept to explain!">>)

ApiError(cause) == Msg("error", <<"API request failed: ", cause>>)

FailedError ==
    Msg("error", <<"Failed to generate analogy. Please check your API configuration and try again.">>)

Explanation(text) == Msg("markdown", text)

Ack(b) ==
    IF b = "Very Helpful" THEN Msg("success", <<"Thank you for your feedback!">>)
    ELSE IF b = "Somewhat Helpful"
      THEN Msg("info", <<"Thanks! We'll keep improving.">>)
    ELSE Msg("warning", <<"Sorry about that. Try a different learning mode or add more context.">>)

\* requests.exceptions.RequestException raised by post or raise_for_status
Causes == {"ConnectionError", "Timeout", "HTTPError 503"}

\* A parsed JSON body.  kind: its JSON type; empty: it is 0, "", {} or [];
\* first: the JSON type of element 0 of a non-empty array; has: whether
\* element 0 contains "generated_text" (as key, substring or member);
\* gtString: the generated_text value is a string; text: that string.
Json(kind, empty, first, has, gtString, text) ==
    [kind |-> kind, empty |-> empty, first |-> first, has |-> has,
     gtString |-> gtString, text |-> text]

NoResponse == Json("None", TRUE, "-", FALSE, FALSE, << >>)

GeneratedTexts == Texts({" ", "h"}, MaxTextLen)

Responses ==
    {Json(k, e, "-", FALSE, FALSE, << >>) :
        k \in {"number", "string", "object"}, e \in BOOLEAN}
    \cup {Json("null", TRUE, "-", FALSE, FALSE, << >>),
          Json("array", TRUE, "-", FALSE, FALSE, << >>)}
    \cup {Json("array", FALSE, f, FALSE, FALSE, << >>) : f \in {"number", "null"}}
    \cup {Json("array", FALSE, f, h, FALSE, << >>) :
            f \in {"object", "string", "array"}, h \in BOOLEAN}
    \cup {Json("array", FALSE, "object", TRUE, TRUE, t) : t \in GeneratedTexts}

\* truth value of `response` (line 181)
Truthy(r) == r.kind \notin {"None", "null"} /\ ~r.empty

\* isinstance(response, list)
IsList(r) == r.kind = "array"

\* `"generated_text" in response[0]` raises for an element that is no container
InRaises(r) == r.first \in {"number", "null"}

\* response[0]["generated_text"].strip() raises unless element 0 is an
\* object whose generated_text is a string
StripRaises(r) == r.first # "object" \/ ~r.gtString

\* ------------------------------------------------------------------- Init
Init ==
    /\ user_token = NoToken
    /\ conceptState = NoState
    /\ context = << >>
    /\ selected_mode = learning_modes[1]
    /\ difficulty_level = "Intermediate"
    /\ session_state = {}
    /\ default_concept = << >>
    /\ concept = << >>
    /\ prompt = << >>
    /\ response = NoResponse
    /\ out = << >>
    /\ pc = "L8"
    /\ clicked = NoButton
    /\ rendered = {}
    /\ screen = {}
    /\ exception = "none"
    /\ posts = 0
    /\ inflight = 0
    /\ runPosts = 0
    /\ qualClicks = 0
    /\ stamp = 0
    /\ defaultStamps = << >>

widgets == <<user_token, conceptState, context, selected_mode, difficulty_level>>

locals == <<default_concept, concept, prompt, response>>

ghosts == <<posts, inflight, runPosts, qualClicks, stamp, defaultStamps>>

\* ----------------------------------------------------- user interactions
\* every interaction starts a run of the script from line 1
StartRun(button) ==
    /\ pc = "idle"
    /\ pc' = "L8"
    /\ clicked' = button
    /\ out' = << >>
    /\ rendered' = {}
    /\ exception' = "none"
    /\ runPosts' = 0
    /\ prompt' = << >>
    /\ response' = NoResponse
    /\ UNCHANGED <<screen, session_state, default_concept, concept,
                   posts, inflight, qualClicks, stamp, defaultStamps>>

EditToken(v) ==
    /\ "token" \in screen
    /\ v # user_token
    /\ StartRun(NoButton)
    /\ user_token' = v
    /\ UNCHANGED <<conceptState, context, selected_mode, difficulty_level>>

EditConcept(v) ==
    /\ "concept" \in screen
    /\ v # concept
    /\ StartRun(NoButton)
    /\ conceptState' = [id |-> default_concept, val |-> v]
    /\ UNCHANGED <<user_token, context, selected_mode, difficulty_level>>

EditContext(v) ==
    /\ "context" \in screen
    /\ v # context
    /\ StartRun(NoButton)
    /\ context' = v
    /\ UNCHANGED <<user_token, conceptState, selected_mode, difficulty_level>>

SelectMode(m) ==
    /\ "mode" \in screen
    /\ m # selected_mode
    /\ StartRun(NoButton)
    /\ selected_mode' = m
    /\ UNCHANGED <<user_token, conceptState, context, difficulty_level>>

SelectDifficulty(d) ==
    /\ "difficulty" \in screen
    /\ d # difficulty_level
    /\ StartRun(NoButton)
    /\ difficulty_level' = d
    /\ UNCHANGED <<user_token, conceptState, context, selected_mode>>

ClickExample(i) ==
    /\ "examples" \in screen
    /\ stamp < MaxStores
    /\ StartRun(<<"example", example_concepts[i]>>)
    /\ UNCHANGED widgets

ClickGenerate ==
    /\ "generate" \in screen
    /\ qualClicks < MaxClicks
    /\ StartRun(<<"button", "Generate Analogy">>)
    /\ UNCHANGED widgets

ClickFeedback(b) ==
    /\ "feedback" \in screen
    /\ StartRun(<<"button", b>>)
    /\ UNCHANGED widgets

ClickTryDifferent ==
    /\ "try_different" \in screen
    /\ StartRun(<<"button", "Try Different Learning Mode">>)
    /\ UNCHANGED widgets

\* ------------------------------------------------------------- the script
TokenMissingNever == FALSE

\* `not user_token`, line 14
TokenMissing == user_token = NoToken

\* lines 5-26: title, token input, credential check, page configuration
TokenInput ==
    /\ pc = "L8"
    /\ rendered' = rendered \cup {"token"}
    /\ IF TokenMissing
         THEN \* st.warning and st.stop(): the run ends here; the state of
              \* the widgets it did not draw is dropped
              /\ out' = Append(out, TokenWarning)
              /\ pc' = "idle"
              /\ screen' = rendered'
              /\ conceptState' = NoState
              /\ context' = << >>
              /\ selected_mode' = learning_modes[1]
              /\ difficulty_level' = "Intermediate"
         ELSE /\ pc' = "L103"
              /\ UNCHANGED <<out, screen, conceptState, context, selected_mode,
                             difficulty_level>>
    /\ UNCHANGED <<user_token, session_state, clicked, exception>>
    /\ UNCHANGED <<locals, ghosts>>

\* lines 103-133: the sidebar widgets
Sidebar ==
    /\ pc = "L103"
    /\ selected_mode \in Range(learning_modes)
    /\ rendered' = rendered \cup {"mode", "difficulty"}
    /\ pc' = "L139"
    /\ UNCHANGED <<widgets, locals, ghosts, session_state, out, clicked, screen,
                   exception>>

HasSelected(ss) == \E e \in ss : e[1] = "selected_concept"

SelectedValue(ss) == (CHOOSE e \in ss : e[1] = "selected_concept")[2]

SelectedKept(ss) == ss

\* `del st.session_state.selected_concept`, line 141
SelectedDeleted(ss) == {e \in ss : e[1] # "selected_concept"}

\* lines 137-155: default_concept, the concept input and the context area
ConceptInput ==
    /\ pc = "L139"
    /\ IF HasSelected(session_state)
         THEN /\ default_concept' = SelectedValue(session_state)
              /\ session_state' = SelectedDeleted(session_state)
              /\ defaultStamps' = Append(defaultStamps, stamp)
         ELSE /\ default_concept' = << >>
              /\ UNCHANGED <<session_state, defaultStamps>>
    /\ IF conceptState # NoState /\ conceptState.id = default_concept'
         THEN /\ concept' = conceptState.val
              /\ UNCHANGED conceptState
         ELSE /\ concept' = default_concept'
              /\ conceptState' = NoState
    /\ qualClicks' =
         IF clicked = <<"button", "Generate Analogy">>
            /\ user_token # NoToken /\ concept' # << >>
           THEN qualClicks + 1 ELSE qualClicks
    /\ rendered' = rendered \cup {"concept", "context"}
    /\ pc' = "L158"
    /\ UNCHANGED <<user_token, context, selected_mode, difficulty_level, prompt,
                   response, out, clicked, screen, exception, posts, inflight,
                   runPosts, stamp>>

\* lines 157-172: the four example buttons
ExampleButtonsColumn ==
    /\ pc = "L158"
    /\ rendered' = rendered \cup {"examples"}
    /\ IF \E i \in ExampleButtons : clicked = <<"example", example_concepts[i]>>
         THEN /\ session_state' =
                   SelectedDeleted(session_state)
                     \cup {<<"selected_concept", <<clicked[2]>>>>}
              /\ stamp' = stamp + 1
         ELSE UNCHANGED <<session_state, stamp>>
    /\ pc' = "L174"
    /\ UNCHANGED <<widgets, locals, out, clicked, screen, exception, posts,
                   inflight, runPosts, qualClicks, defaultStamps>>

ConceptMissingNever == FALSE

\* `not concept`, line 175
ConceptMissing == concept = << >>

\* lines 174-180 and 37-41: the Generate button up to the POST
GenerateButton ==
    /\ pc = "L174"
    /\ rendered' = rendered \cup {"generate"}
    /\ IF clicked # <<"button", "Generate Analogy">>
         THEN /\ pc' = "L203"
              /\ UNCHANGED <<prompt, out, posts, inflight, runPosts>>
         ELSE IF ConceptMissing
           THEN /\ out' = Append(out, ConceptWarning)
                /\ pc' = "L203"
                /\ UNCHANGED <<prompt, posts, inflight, runPosts>>
           ELSE /\ prompt' = create_analogy_prompt(concept, selected_mode,
                                                   <<difficulty_level>>, context)
                /\ posts' = posts + 1
                /\ inflight' = inflight + 1
                /\ runPosts' = runPosts + 1
                /\ pc' = "L41"
                /\ UNCHANGED out
    /\ UNCHANGED <<widgets, session_state, default_concept, concept, response,
                   clicked, screen, exception, qualClicks, stamp, defaultStamps>>

\* lines 41-43: the POST succeeds with status 2xx and a JSON body
PostReturns(r) ==
    /\ pc = "L41"
    /\ inflight' = inflight - 1
    /\ response' = r
    /\ pc' = "L181"
    /\ UNCHANGED <<widgets, session_state, default_concept, concept, prompt, out,
                   clicked, rendered, screen, exception, posts, runPosts,
                   qualClicks, stamp, defaultStamps>>

\* the except clause posts the request again
PostRaisesRetry(cause) ==
    /\ pc = "L41"
    /\ posts < 2 * MaxClicks
    /\ posts' = posts + 1
    /\ runPosts' = runPosts + 1
    /\ out' = Append(out, ApiError(cause))
    /\ UNCHANGED <<widgets, session_state, locals, pc, inflight, clicked,
                   rendered, screen, exception, qualClicks, stamp, defaultStamps>>

\* the except clause returns None without st.error
PostRaisesSilent(cause) ==
    /\ pc = "L41"
    /\ inflight' = inflight - 1
    /\ response' = NoResponse
    /\ pc' = "L181"
    /\ UNCHANGED <<widgets, session_state, default_concept, concept, prompt, out,
                   clicked, rendered, screen, exception, posts, runPosts,
                   qualClicks, stamp, defaultStamps>>

\* lines 44-46: post or raise_for_status raises a RequestException
PostRaises(cause) ==
    /\ pc = "L41"
    /\ inflight' = inflight - 1
    /\ out' = Append(out, ApiError(cause))
    /\ response' = NoResponse
    /\ pc' = "L181"
    /\ UNCHANGED <<widgets, session_state, default_concept, concept, prompt,
                   clicked, rendered, screen, exception, posts, runPosts,
                   qualClicks, stamp, defaultStamps>>

\* an uncaught exception ends the run; what was drawn stays on screen
Raise(e) ==
    /\ exception' = e
    /\ pc' = "idle"
    /\ screen' = rendered

FeedbackAcks ==
    IF clicked[1] = "button" /\ clicked[2] \in FeedbackButtons
      THEN <<Ack(clicked[2])>> ELSE << >>

\* lines 181-201: the response is shown
HandleResponse ==
    /\ pc = "L181"
    /\ IF Truthy(response) /\ IsList(response)
         THEN IF InRaises(response)
                THEN /\ Raise("TypeError")
                     /\ UNCHANGED <<out, rendered>>
              ELSE IF response.has
                THEN IF StripRaises(response)
                       THEN /\ Raise(IF response.first = "object"
                                       THEN "AttributeError" ELSE "TypeError")
                            /\ UNCHANGED <<out, rendered>>
                       ELSE /\ out' = Append(out, Explanation(strip(response.text)))
                                        \o FeedbackAcks
                            /\ rendered' =
                                 rendered \cup {"feedback", "try_different"}
                            /\ pc' = "L203"
                            /\ UNCHANGED <<exception, screen>>
              ELSE /\ out' = Append(out, FailedError)
                   /\ pc' = "L203"
                   /\ UNCHANGED <<exception, screen, rendered>>
         ELSE /\ out' = Append(out, FailedError)
              /\ pc' = "L203"
              /\ UNCHANGED <<exception, screen, rendered>>
    /\ UNCHANGED <<widgets, session_state, locals, clicked, ghosts>>

\* lines 203-225: the tips; the run is complete
Tips ==
    /\ pc = "L203"
    /\ pc' = "idle"
    /\ screen' = rendered
    /\ UNCHANGED <<widgets, session_state, locals, ghosts, out, clicked,
                   rendered, exception>>

Next ==
    \/ \E v \in Tokens : EditToken(v)
    \/ \E v \in TypedConcepts : EditConcept(v)
    \/ \E v \in TypedContexts : EditContext(v)
    \/ \E m \in Range(learning_modes) : SelectMode(m)
    \/ \E d \in Range(difficulty_options) : SelectDifficulty(d)
    \/ \E i \in ExampleButtons : ClickExample(i)
    \/ ClickGenerate
    \/ \E b \in FeedbackButtons : ClickFeedback(b)
    \/ ClickTryDifferent
    \/ TokenInput
    \/ Sidebar
    \/ ConceptInput
    \/ ExampleButtonsColumn
    \/ GenerateButton
    \/ \E r \in Responses : PostReturns(r)
    \/ \E c \in Causes : PostRaises(c)
    \/ HandleResponse
    \/ Tips

Spec == Init /\ [][Next]_vars

\* ------------------------------------ create_analogy_prompt on its own
\* The function is applied to arguments beyond those the widgets supply:
\* mode names outside learning_modes and contexts of several lines.
RenderModes ==
    Range(learning_modes) \cup {"", "Unknown Mode", "story-based learning"}

RenderConcepts == {<< >>, <<"Photosynthesis">>, <<"Context: ">>, <<NL, "Context: ">>}

RenderContexts == Texts({"c", NL, "Context: "}, MaxCtxLen)

InitRender ==
    /\ user_token = <<"hf_token">>
    /\ conceptState = NoState
    /\ context \in RenderContexts
    /\ selected_mode \in RenderModes
    /\ difficulty_level \in Range(difficulty_options)
    /\ session_state = {}
    /\ default_concept = << >>
    /\ concept \in RenderConcepts
    /\ prompt = << >>
    /\ response = NoResponse
    /\ out = << >>
    /\ pc = "call"
    /\ clicked = NoButton
    /\ rendered = {}
    /\ screen = {}
    /\ exception = "none"
    /\ posts = 0
    /\ inflight = 0
    /\ runPosts = 0
    /\ qualClicks = 0
    /\ stamp = 0
    /\ defaultStamps = << >>

Render ==
    /\ pc = "call"
    /\ prompt' = create_analogy_prompt(concept, selected_mode,
                                       <<difficulty_level>>, context)
    /\ pc' = "returned"
    /\ UNCHANGED <<widgets, session_state, default_concept, concept, response,
                   out, clicked, rendered, screen, exception, ghosts>>

NextRender == Render

SpecRender == InitRender /\ [][NextRender]_vars

\* ==================================================================== claims
GenerateClick == <<"button", "Generate Analogy">>

\* the POST of the current run raised: query_api returned None
NetworkFailed ==
    runPosts > 0 /\ pc \in {"L181", "L203", "idle"} /\ response = NoResponse

\* C1: while the token is empty the script is at the credential check or has
\* stopped there with only the token warning shown; the run has built no
\* prompt and issued no POST, and no request is in flight.
C1_NoPostWithoutToken ==
    user_token = NoToken =>
        /\ pc \in {"L8", "idle"}
        /\ runPosts = 0 /\ inflight = 0 /\ prompt = << >>
        /\ pc = "idle" => out = <<TokenWarning>> /\ screen = {"token"}

C1_Witness ==
    pc = "idle" /\ user_token = NoToken /\ out = <<TokenWarning>> /\ posts > 0

\* C2: a run triggered by Generate with an empty concept shows the concept
\* warning, renders no prompt and issues no POST; a prompt in flight was
\* rendered from the non-empty concept of its run.
C2_EmptyConceptBlocked ==
    /\ pc = "L41" =>
          /\ concept # << >>
          /\ prompt = create_analogy_prompt(concept, selected_mode,
                                            <<difficulty_level>>, context)
    /\ (clicked = GenerateClick /\ pc \in {"L203", "idle"} /\ concept = << >>) =>
          out = <<ConceptWarning>> /\ prompt = << >> /\ runPosts = 0

C2_Witness ==
    /\ pc = "idle" /\ clicked = GenerateClick /\ concept = << >>
    /\ out = <<ConceptWarning>> /\ posts > 0

\* C3 as stated: after a failed POST the only thing emitted by the run is the
\* network error; no explanation, no retry.
C3_OnlyNetworkError ==
    (NetworkFailed /\ pc \in {"L203", "idle"}) =>
        /\ \E c \in Causes : out = <<ApiError(c)>>
        /\ runPosts = 1

\* C3 amended: after a failed POST the run emits the network error with the
\* cause's description and then the generic failure message, and nothing
\* else; no explanation or feedback button is drawn, the request is not
\* repeated and the run ends normally.
C3_NetworkErrorThenGeneric ==
    NetworkFailed =>
        /\ \E c \in Causes :
              /\ pc = "L181" => out = <<ApiError(c)>>
              /\ pc \in {"L203", "idle"} => out = <<ApiError(c), FailedError>>
        /\ runPosts = 1
        /\ exception = "none"
        /\ "feedback" \notin rendered

C3_Witness ==
    /\ pc = "idle" /\ NetworkFailed
    /\ out = <<ApiError("Timeout"), FailedError>>

\* a parsed body that does not have the generation shape
BadShape(r) == ~IsList(r) \/ r.empty \/ ~(r.first = "object" /\ r.has)

\* C4: a run whose POST returned a body that is not a sequence, is empty, or
\* whose first element lacks generated_text ends without an exception, having
\* shown exactly the generic failure message.
C4_BadShapeIsExtractionError ==
    (pc = "idle" /\ runPosts = 1 /\ response # NoResponse /\ BadShape(response)) =>
        exception = "none" /\ out = <<FailedError>>

\* C5: at most one request is in flight, and only while the script waits in
\* query_api; a run posts at most once and only when Generate triggered it;
\* once a run is over the number of POSTs equals the number of Generate
\* clicks whose run had a token and a non-empty concept.
C5_OnePostPerGenerate ==
    /\ inflight = (IF pc = "L41" THEN 1 ELSE 0)
    /\ runPosts <= 1
    /\ runPosts > 0 => clicked = GenerateClick
    /\ posts <= qualClicks
    /\ pc \in {"L41", "L181", "L203", "idle"} => posts = qualClicks

C5_Witness ==
    /\ pc = "idle" /\ posts = MaxClicks /\ qualClicks = MaxClicks
    /\ clicked[2] \in FeedbackButtons

\* C6: for a mode outside the five names the result is the Story-Based
\* Learning rendering of the same concept, difficulty and context; for one of
\* the five names the result differs from the rendering of the other four.
C6_UnknownModeIsStory ==
    pc = "returned" =>
        /\ selected_mode \notin Range(learning_modes) =>
              /\ prompt = StoryTemplate(concept, <<difficulty_level>>,
                                        base_context(context))
              /\ prompt = create_analogy_prompt(concept, "Story-Based Learning",
                                                <<difficulty_level>>, context)
        /\ selected_mode \in Range(learning_modes) =>
              \A m \in Range(learning_modes) \ {selected_mode} :
                  prompt # create_analogy_prompt(concept, m,
                                                 <<difficulty_level>>, context)

C6_Witness ==
    /\ pc = "returned" /\ selected_mode = "Unknown Mode"
    /\ "**Story Title:** [Creative title]" \in Range(prompt)

\* the numbers of the lines of a text that start with "Context: "
ContextLines(p) ==
    {i \in 1..Len(Lines(p)) : Lines(p)[i] # << >> /\ Head(Lines(p)[i]) = "Context: "}

\* C7 as stated: the prompt has a Context line iff context is non-empty, and
\* then exactly one, `Context: <context>`, placed first.
C7_ContextLineFirst ==
    pc = "returned" =>
        /\ ContextLines(prompt) # {} <=> context # << >>
        /\ context # << >> =>
              /\ ContextLines(prompt) = {1}
              /\ Lines(prompt)[1] = <<"Context: ">> \o context

\* C7 amended: for a concept without line break, the prompt has a line
\* starting with "Context: " iff context is non-empty; then line 2 of the
\* prompt is "Context: " followed by the first line of context, line 1 being
\* the opening sentence of the mode, and it is the only such line when
\* context has no line break.
C7_ContextLineSecond ==
    (pc = "returned" /\ NL \notin Range(concept)) =>
        /\ ContextLines(prompt) # {} <=> context # << >>
        /\ 1 \notin ContextLines(prompt)
        /\ context # << >> =>
              /\ 2 \in ContextLines(prompt)
              /\ Lines(prompt)[2] = <<"Context: ">> \o Lines(context)[1]
              /\ NL \notin Range(context) => ContextLines(prompt) = {2}

C7_Witness ==
    /\ pc = "returned" /\ context = <<"c">> /\ concept = <<"Photosynthesis">>
    /\ Lines(prompt)[2] = <<"Context: ", "c">>

\* e is t without its leading and trailing whitespace
Trimmed(e, t) ==
    /\ e # << >> => Head(e) \notin Whitespace /\ e[Len(e)] \notin Whitespace
    /\ \E i \in 1..(Len(t) + 1) :
          /\ SubSeq(t, i, i + Len(e) - 1) = e
          /\ i + Len(e) - 1 <= Len(t)
          /\ \A j \in 1..Len(t) : (j < i \/ j > i + Len(e) - 1) => t[j] \in Whitespace

\* C8: the explanation shown is the generated_text of the response without
\* its surrounding whitespace.
C8_ExplanationTrimmed ==
    \A i \in 1..Len(out) :
        out[i].fn = "markdown" => Trimmed(out[i].body, response.text)

C8_Witness ==
    /\ response.text = <<" ", "h", " ">>
    /\ out = <<Explanation(<<"h">>)>>

NoDuplicates(q) == \A i, j \in 1..Len(q) : q[i] = q[j] => i = j

\* C9 as stated: no stored value is used as default twice, and at the end of
\* any run selected_concept is present only if an example button was clicked
\* in that run.
C9_PresentOnlyAfterExample ==
    /\ NoDuplicates(defaultStamps)
    /\ (pc = "idle" /\ HasSelected(session_state)) => clicked[1] = "example"

\* C9 amended: no stored value is used as default twice; the run that reaches
\* the concept input uses the stored value and deletes it there; at the end
\* of a run that reached the concept input selected_concept is present only
\* if an example button was clicked in that run, holding that example.
C9_ConsumedOnce ==
    /\ NoDuplicates(defaultStamps)
    /\ pc = "L158" => ~HasSelected(session_state)
    /\ Range(defaultStamps) =
          1..(IF HasSelected(session_state) THEN stamp - 1 ELSE stamp)
    /\ (pc = "idle" /\ "concept" \in screen /\ HasSelected(session_state)) =>
          /\ clicked[1] = "example"
          /\ SelectedValue(session_state) = <<clicked[2]>>

C9_Witness ==
    /\ pc = "idle" /\ "concept" \in screen /\ defaultStamps = <<1, 2>>
    /\ ~HasSelected(session_state) /\ default_concept = <<example_concepts[2]>>

\* C10: the run triggered by a feedback button shows that button's
\* acknowledgement.
C10_FeedbackAcknowledged ==
    (pc = "idle" /\ clicked[1] = "button" /\ clicked[2] \in FeedbackButtons) =>
        Ack(clicked[2]) \in Range(out)

====
